---- MODULE Spec2Model ----
(***************************************************************************)
(* A model of the proof-of-work ledger of simple-blockchain: blocks and    *)
(* their canonical hash (block.go), the proof-of-work search and check     *)
(* (proofofwork.go), the ledger store over the two bbolt buckets           *)
(* (blockchain.go) and the commands that drive it (the CLI).               *)
(*                                                                         *)
(* Byte strings are modelled by records: a digest is [sha, int], where sha *)
(* is the hashed data (SHA-256 is taken to be collision free) and int is   *)
(* the digest read as an unsigned integer, scaled down to HashBits bits.   *)
(***************************************************************************)
EXTENDS Integers, Sequences, FiniteSets, TLC

\* ------------------------------------------------------------------ bounds

\* Width of a digest in bits (256 in the program).
HashBits == 4
\* Most block records the store may hold.
MaxBlocks == 2
\* Most entries the mempool bucket may hold.
MaxPool == 2

\* ------------------------------------------------------- program constants

\* proofofwork.go: const targetBits (16 of 256 bits in the program).
targetBits == 2
\* proofofwork.go: const maxNonce (math.MaxInt64 in the program).
maxNonce == 4
\* The coinbase reward ("Check Balance (Should be 10)").
subsidy == 10

\* ------------------------------------------------------------ byte strings

\* []byte{} and nil: a byte string of length 0.
EmptyBytes == [len |-> 0]

Pow2(n) == 2 ^ n

HashSpace == Pow2(HashBits)

\* sha256.Sum256 of data whose numeric reading is num.
Sha256(data, num) == [sha |-> data, int |-> (5 * num + 1) % HashSpace]

\* big.Int.SetBytes(hash): the digest as an unsigned integer.
HashInt(h) == IF h = EmptyBytes THEN 0 ELSE h.int

\* The wallets of the model, each an address with its key pair.
Addrs == {"A", "B", "C"}

AddrNum(a) == CASE a = "A" -> 1 [] a = "B" -> 2 [] OTHER -> 3

\* wallet.PublicKey of the wallet with address a.
PubKeyOf(a) == [pub |-> a]

\* HashPubKey(pubKey): the fingerprint that locks outputs to a key.
HashPubKey(pk) == [fp |-> pk.pub]

\* Base58Decode(address)[1 : len-4]: the fingerprint an address encodes.
AddrFingerprint(a) == [fp |-> a]

\* ------------------------------------------------------------ transactions

\* gob encoding of a value (Transaction.Serialize, Block.Serialize).
Serialize(x) == [gob |-> x]

\* TXOutput{Value, PubKeyHash}: value locked to the fingerprint of address a.
NewTXOutput(value, a) == [Value |-> value, PubKeyHash |-> AddrFingerprint(a)]

\* TXInput{Txid, Vout, Signature, PubKey}.
TXInput(txid, vout, sig, pk) ==
  [Txid |-> txid, Vout |-> vout, Signature |-> sig, PubKey |-> pk]

RECURSIVE SumValues(_)
SumValues(outs) ==
  IF outs = <<>> THEN 0
  ELSE Head(outs).Value + AddrNum(Head(outs).PubKeyHash.fp) + SumValues(Tail(outs))

\* The serialized transaction read as a number (for the scaled digest).
TxNum(tx) == 3 * Len(tx.Vin) + SumValues(tx.Vout)

\* Transaction.Hash: the digest of the transaction with its ID cleared.
TxHash(tx) == Sha256([Vin |-> tx.Vin, Vout |-> tx.Vout], TxNum(tx))

SetID(tx) == [tx EXCEPT !.ID = TxHash(tx)]

\* newCoinbase(rewardAddress, note): one sentinel input, one subsidy output.
NewCoinbaseTX(to, data) ==
  SetID([ID |-> EmptyBytes,
         Vin |-> <<TXInput(EmptyBytes, -1, [note |-> data], EmptyBytes)>>,
         Vout |-> <<NewTXOutput(subsidy, to)>>])

\* isCoinbase(tx): one input with an empty previous id and index -1.
IsCoinbase(tx) ==
  /\ Len(tx.Vin) = 1
  /\ tx.Vin[1].Txid = EmptyBytes
  /\ tx.Vin[1].Vout = -1

\* usesKey(input, fingerprint).
UsesKey(in, pubKeyHash) ==
  /\ in.PubKey # EmptyBytes
  /\ HashPubKey(in.PubKey) = pubKeyHash

\* isLockedWithKey(output, fingerprint).
IsLockedWithKey(out, pubKeyHash) == out.PubKeyHash = pubKeyHash

\* prevTXs[hex(txid)]: the referenced transaction among prevTXs.
PrevTX(prevTXs, txid) == CHOOSE p \in prevTXs : p.ID = txid

\* The trimmed copy signed for input i: every unlock field cleared, input
\* i carrying the locking fingerprint of the output it references.
TrimmedDigest(tx, i, prevTXs) ==
  LET ref == PrevTX(prevTXs, tx.Vin[i].Txid).Vout[tx.Vin[i].Vout + 1].PubKeyHash
      vin == [j \in 1..Len(tx.Vin) |->
                TXInput(tx.Vin[j].Txid, tx.Vin[j].Vout, EmptyBytes,
                        IF j = i THEN ref ELSE EmptyBytes)]
  IN  Sha256([ID |-> tx.ID, Vin |-> vin, Vout |-> tx.Vout], TxNum(tx))

\* ecdsa.Sign by the private key of address a over digest.
EcdsaSign(a, digest) == [signer |-> a, digest |-> digest]

\* sign(tx, privateKey, referencedTxs): each input signed on its own.
Sign(tx, a, prevTXs) ==
  [tx EXCEPT !.Vin =
     [i \in 1..Len(tx.Vin) |->
        [tx.Vin[i] EXCEPT !.Signature = EcdsaSign(a, TrimmedDigest(tx, i, prevTXs))]]]

\* verify(tx, referencedTxs): every input's signature checks against the
\* public key the input itself carries.
Verify(tx, prevTXs) ==
  IsCoinbase(tx) \/
  \A i \in 1..Len(tx.Vin) :
     /\ tx.Vin[i].PubKey # EmptyBytes
     /\ tx.Vin[i].Signature = EcdsaSign(tx.Vin[i].PubKey.pub, TrimmedDigest(tx, i, prevTXs))

\* ------------------------------------------------------------------ blocks

\* IntToHex: the big-endian encoding of an int64.
IntToHex(num) == [int64 |-> num]

RECURSIVE SumTxNum(_)
SumTxNum(txs) == IF txs = <<>> THEN 0 ELSE TxNum(Head(txs)) + SumTxNum(Tail(txs))

\* Block.HashTransactions: SHA-256 over the serialized transactions, in order.
HashTransactions(b) ==
  Sha256([i \in 1..Len(b.Transactions) |-> Serialize(b.Transactions[i])],
         SumTxNum(b.Transactions))

\* Block.PrepareData: PrevBlockHash + TxHashes + Timestamp + Nonce.
PrepareData(b) ==
  [data |-> <<b.PrevBlockHash, HashTransactions(b), IntToHex(b.Timestamp), IntToHex(b.Nonce)>>,
   num  |-> HashInt(b.PrevBlockHash) + 3 * HashInt(HashTransactions(b))
            + 5 * b.Timestamp + 7 * b.Nonce]

\* Block.CalculateHash.
CalculateHash(b) == Sha256(PrepareData(b).data, PrepareData(b).num)

\* NewProofOfWork: target = 1 << (256 - targetBits).
target == Pow2(HashBits - targetBits)

\* ProofOfWork.prepareData(nonce) hashed: the digest with nonce substituted.
PowHash(b, nonce) == CalculateHash([b EXCEPT !.Nonce = nonce])

\* ProofOfWork.Run: the loop from nonce, returning (nonce, hash) as the loop
\* leaves them; hash is the digest of the last nonce tried.
RECURSIVE RunFrom(_, _, _)
RunFrom(b, nonce, hash) ==
  IF nonce < maxNonce
  THEN IF HashInt(PowHash(b, nonce)) < target
       THEN [nonce |-> nonce, hash |-> PowHash(b, nonce)]
       ELSE RunFrom(b, nonce + 1, PowHash(b, nonce))
  ELSE [nonce |-> nonce, hash |-> hash]

Run(b) == RunFrom(b, 0, EmptyBytes)

\* ProofOfWork.Validate.
Validate(b) == HashInt(CalculateHash(b)) < target

\* NewBlock(transactions, prevBlockHash) at time now.
NewBlock(transactions, prevBlockHash, now) ==
  LET block == [Timestamp |-> now, Transactions |-> transactions,
                PrevBlockHash |-> prevBlockHash, Hash |-> EmptyBytes, Nonce |-> 0]
      pow == Run(block)
  IN  [block EXCEPT !.Hash = pow.hash, !.Nonce = pow.nonce]

\* DeserializeBlock(d).
DeserializeBlock(d) == d.gob

\* ------------------------------------------------------------------- store

\* The bbolt file: the blocks bucket (block records keyed by hash, and the
\* reserved key "l" kept apart as l) and the mempool bucket.
EmptyDB ==
  [hasBlocks |-> FALSE, blocks |-> <<>>, l |-> EmptyBytes,
   hasPool |-> FALSE, pool |-> <<>>]

\* Blockchain.tip of a process that holds no handle.
NoHandle == [closed |-> TRUE]

\* Bucket.Get(key): nil when the key is absent.
Get(kv, k) == IF k \in DOMAIN kv THEN kv[k] ELSE EmptyBytes

\* Bucket.Put(key, value).
Put(kv, k, v) == [x \in DOMAIN kv \cup {k} |-> IF x = k THEN v ELSE kv[x]]

\* One step of an Update closure, or its commit; SetTip is the assignment
\* to Blockchain.tip (memory, not part of the store transaction).
Op(w, k, v) == [w |-> w, k |-> k, v |-> v]

\* A running handler: the committed store, the view of the open
\* transaction, and the handle's tip.
Apply(st, op) ==
  CASE op.w = "CreateBlocks" ->
         [st EXCEPT !.view.hasBlocks = TRUE, !.view.blocks = <<>>, !.view.l = EmptyBytes]
    [] op.w = "CreatePool" -> [st EXCEPT !.view.hasPool = TRUE, !.view.pool = <<>>]
    [] op.w = "DeletePool" -> [st EXCEPT !.view.hasPool = FALSE, !.view.pool = <<>>]
    [] op.w = "PutBlock" -> [st EXCEPT !.view.blocks = Put(st.view.blocks, op.k, op.v)]
    [] op.w = "PutL" -> [st EXCEPT !.view.l = op.v]
    [] op.w = "PutPool" -> [st EXCEPT !.view.pool = Put(st.view.pool, op.k, op.v)]
    [] op.w = "SetTip" -> [st EXCEPT !.tip = op.v]
    [] op.w = "Commit" -> [st EXCEPT !.db = st.view]

RECURSIVE ApplyAll(_, _)
ApplyAll(st, ws) == IF ws = <<>> THEN st ELSE ApplyAll(Apply(st, Head(ws)), Tail(ws))

\* The ledger a caller sees once the handler has run ws from (db, tip): an
\* Update that did not commit is rolled back.
After(s, ws) ==
  LET e == ApplyAll([db |-> s.db, view |-> s.db, tip |-> s.tip], ws)
  IN  [db |-> e.db, tip |-> e.tip]

\* ----------------------------------------------------------- chain queries

\* BlockchainIterator.Next repeated from hash h, as the loops of the
\* queries do: the blocks returned and how the loop ends (at a block with an
\* empty PrevBlockHash, on a hash with no record, or never).
RECURSIVE Walk(_, _, _)
Walk(kv, h, fuel) ==
  IF h \notin DOMAIN kv THEN [blocks |-> <<>>, end |-> "panic"]
  ELSE LET b == DeserializeBlock(kv[h])
       IN  IF b.PrevBlockHash = EmptyBytes THEN [blocks |-> <<b>>, end |-> "genesis"]
           ELSE IF fuel = 0 THEN [blocks |-> <<b>>, end |-> "loop"]
           ELSE LET r == Walk(kv, b.PrevBlockHash, fuel - 1)
                IN  [blocks |-> <<b>> \o r.blocks, end |-> r.end]

\* Blockchain.Iterator and the loop over it, from the handle's tip.
Chain(s) == Walk(s.db.blocks, s.tip, Cardinality(DOMAIN s.db.blocks))

RECURSIVE Flatten(_)
Flatten(bs) == IF bs = <<>> THEN <<>> ELSE Head(bs).Transactions \o Flatten(Tail(bs))

\* The transactions in the order the scans visit them.
ChainTxs(s) == Flatten(Chain(s).blocks)

\* FindUnspentTransactions, the body of the loop for one transaction: acc
\* is (unspentTXs, spentTXOs).
RECURSIVE ScanOutputs(_, _, _, _)
ScanOutputs(tx, outIdx, pubKeyHash, acc) ==
  IF outIdx >= Len(tx.Vout) THEN acc
  ELSE ScanOutputs(tx, outIdx + 1, pubKeyHash,
         IF <<tx.ID, outIdx>> \in acc.spent THEN acc
         ELSE IF IsLockedWithKey(tx.Vout[outIdx + 1], pubKeyHash)
              THEN [acc EXCEPT !.unspent = Append(acc.unspent, tx)]
              ELSE acc)

\* Mutant of ScanInputs: no input is recorded as spending.
ScanInputsNone(tx, pubKeyHash, acc) == acc

\* FindUnspentTransactions, the inputs of one transaction: those that use
\* the key are recorded in spentTXOs.
ScanInputs(tx, pubKeyHash, acc) ==
  IF IsCoinbase(tx) THEN acc
  ELSE [acc EXCEPT !.spent = acc.spent \cup
          {<<tx.Vin[i].Txid, tx.Vin[i].Vout>> :
             i \in {j \in 1..Len(tx.Vin) : UsesKey(tx.Vin[j], pubKeyHash)}}]

RECURSIVE ScanTxs(_, _, _)
ScanTxs(txs, pubKeyHash, acc) ==
  IF txs = <<>> THEN acc
  ELSE ScanTxs(Tail(txs), pubKeyHash,
               ScanInputs(Head(txs), pubKeyHash, ScanOutputs(Head(txs), 0, pubKeyHash, acc)))

\* Blockchain.FindUnspentTransactions(pubKeyHash).
FindUnspentTransactions(s, pubKeyHash) ==
  ScanTxs(ChainTxs(s), pubKeyHash, [unspent |-> <<>>, spent |-> {}]).unspent

\* The outputs of tx locked to pubKeyHash, each with its place.
LockedOutputs(tx, pubKeyHash) ==
  SelectSeq([i \in 1..Len(tx.Vout) |-> [txid |-> tx.ID, idx |-> i - 1, out |-> tx.Vout[i]]],
            LAMBDA o : IsLockedWithKey(o.out, pubKeyHash))

RECURSIVE ConcatLocked(_, _)
ConcatLocked(txs, pubKeyHash) ==
  IF txs = <<>> THEN <<>>
  ELSE LockedOutputs(Head(txs), pubKeyHash) \o ConcatLocked(Tail(txs), pubKeyHash)

\* Blockchain.FindUTXO(pubKeyHash), each output with the place it was read
\* from; the outputs themselves are FindUTXO.
FindUTXOPlaces(s, pubKeyHash) ==
  ConcatLocked(FindUnspentTransactions(s, pubKeyHash), pubKeyHash)

FindUTXO(s, pubKeyHash) ==
  [i \in 1..Len(FindUTXOPlaces(s, pubKeyHash)) |-> FindUTXOPlaces(s, pubKeyHash)[i].out]

\* CLI.getBalance: the sum of the values FindUTXO returns.
RECURSIVE SumOut(_)
SumOut(outs) == IF outs = <<>> THEN 0 ELSE Head(outs).Value + SumOut(Tail(outs))

Balance(s, a) == SumOut(FindUTXO(s, AddrFingerprint(a)))

\* Mutant of Spend: the loop stops only once accumulated exceeds amount.
RECURSIVE SpendUntilOver(_, _, _)
SpendUntilOver(places, amount, acc) ==
  IF places = <<>> \/ acc.accumulated > amount THEN acc
  ELSE SpendUntilOver(Tail(places), amount,
                      [accumulated |-> acc.accumulated + Head(places).out.Value,
                       outputs |-> Append(acc.outputs, Head(places))])

\* Blockchain.FindSpendableOutputs: the loop over the locked outputs of
\* unspentTXs in order, taking outputs while accumulated < amount.
RECURSIVE Spend(_, _, _)
Spend(places, amount, acc) ==
  IF places = <<>> \/ acc.accumulated >= amount THEN acc
  ELSE Spend(Tail(places), amount,
             [accumulated |-> acc.accumulated + Head(places).out.Value,
              outputs |-> Append(acc.outputs, Head(places))])

FindSpendableOutputs(s, pubKeyHash, amount) ==
  Spend(FindUTXOPlaces(s, pubKeyHash), amount, [accumulated |-> 0, outputs |-> <<>>])

\* Blockchain.FindTransaction(ID): the first match in scan order, the error
\* when the scan ends at genesis without one.
FindTransaction(s, id) ==
  LET hits == SelectSeq(ChainTxs(s), LAMBDA t : t.ID = id)
  IN  IF hits # <<>> THEN [res |-> "ok", tx |-> Head(hits)]
      ELSE IF Chain(s).end = "genesis" THEN [res |-> "notfound", tx |-> EmptyBytes]
      ELSE [res |-> Chain(s).end, tx |-> EmptyBytes]

\* Blockchain.VerifyTransaction(tx): "true" or "false", or the panic of
\* log.Panic(err) when FindTransaction fails for an input.
VerifyTransaction(s, tx) ==
  IF IsCoinbase(tx) THEN "true"
  ELSE LET found == [i \in 1..Len(tx.Vin) |-> FindTransaction(s, tx.Vin[i].Txid)]
           bad == {i \in 1..Len(tx.Vin) : found[i].res # "ok"}
           prevTXs == {found[i].tx : i \in 1..Len(tx.Vin)}
       IN  IF bad # {}
           THEN (IF found[CHOOSE i \in bad : \A j \in bad : i <= j].res = "loop"
                 THEN "hang" ELSE "panic")
           ELSE IF \E i \in 1..Len(tx.Vin) : tx.Vin[i].Vout + 1 \notin 1..Len(found[i].tx.Vout)
           THEN "panic"
           ELSE IF Verify(tx, prevTXs) THEN "true" ELSE "false"

\* Blockchain.SignTransaction(tx, privKey) for the wallet of address a.
SignTransaction(s, tx, a) ==
  Sign(tx, a, {FindTransaction(s, tx.Vin[i].Txid).tx : i \in 1..Len(tx.Vin)})

\* ---------------------------------------------------------------- handlers
\* Each handler yields the steps it performs on the store (ws), how it
\* ends (res) and the hash of the block it handled (h).

Result(ws, res, h) == [ws |-> ws, res |-> res, h |-> h]

\* Mutant of WriteBlock: the tip pointer committed in an Update of its own,
\* before the block record.
WriteBlockTipFirst(b) ==
  <<Op("PutL", EmptyBytes, b.Hash), Op("Commit", EmptyBytes, EmptyBytes),
    Op("PutBlock", b.Hash, Serialize(b)), Op("SetTip", EmptyBytes, b.Hash),
    Op("Commit", EmptyBytes, EmptyBytes)>>

\* Mutant of WriteBlock: the Update that writes a block also empties the
\* mempool bucket.
WriteBlockDrainPool(b) ==
  <<Op("PutBlock", b.Hash, Serialize(b)), Op("PutL", EmptyBytes, b.Hash),
    Op("SetTip", EmptyBytes, b.Hash), Op("DeletePool", EmptyBytes, EmptyBytes),
    Op("CreatePool", EmptyBytes, EmptyBytes), Op("Commit", EmptyBytes, EmptyBytes)>>

\* The Update of MineBlock and of AddBlock: the block under its hash, the
\* tip pointer, the handle's tip, then the commit.
WriteBlock(b) ==
  <<Op("PutBlock", b.Hash, Serialize(b)), Op("PutL", EmptyBytes, b.Hash),
    Op("SetTip", EmptyBytes, b.Hash), Op("Commit", EmptyBytes, EmptyBytes)>>

\* Mutant of NewBlockchain: the bootstrap does not create the mempool
\* bucket (it is left to the migration path of a later open).
NewBlockchainLazyPool(s, address, now) ==
  IF ~s.db.hasBlocks
  THEN IF address = ""
       THEN Result(<<>>, "exit", EmptyBytes)
       ELSE LET genesis == NewBlock(<<NewCoinbaseTX(address, "Genesis Block")>>, EmptyBytes, now)
            IN  Result(<<Op("CreateBlocks", EmptyBytes, EmptyBytes),
                         Op("PutBlock", genesis.Hash, Serialize(genesis)),
                         Op("PutL", EmptyBytes, genesis.Hash),
                         Op("Commit", EmptyBytes, EmptyBytes),
                         Op("SetTip", EmptyBytes, genesis.Hash)>>,
                       "genesis", genesis.Hash)
  ELSE Result((IF s.db.hasPool THEN <<>> ELSE <<Op("CreatePool", EmptyBytes, EmptyBytes)>>)
              \o <<Op("Commit", EmptyBytes, EmptyBytes), Op("SetTip", EmptyBytes, s.db.l)>>,
              "loaded", s.db.l)

\* Mutant of NewBlockchain: a reward address makes a genesis block also on
\* a store that holds a chain.
NewBlockchainRebootstrap(s, address, now) ==
  LET genesis == NewBlock(<<NewCoinbaseTX(address, "Genesis Block")>>, EmptyBytes, now)
  IN  IF address = ""
      THEN Result(<<Op("Commit", EmptyBytes, EmptyBytes), Op("SetTip", EmptyBytes, s.db.l)>>,
                  IF s.db.hasBlocks THEN "loaded" ELSE "exit", s.db.l)
      ELSE Result((IF s.db.hasBlocks THEN <<>> ELSE <<Op("CreateBlocks", EmptyBytes, EmptyBytes)>>)
                  \o <<Op("PutBlock", genesis.Hash, Serialize(genesis)),
                       Op("PutL", EmptyBytes, genesis.Hash)>>
                  \o (IF s.db.hasPool THEN <<>> ELSE <<Op("CreatePool", EmptyBytes, EmptyBytes)>>)
                  \o <<Op("Commit", EmptyBytes, EmptyBytes), Op("SetTip", EmptyBytes, genesis.Hash)>>,
                  IF s.db.hasBlocks THEN "loaded" ELSE "genesis", genesis.Hash)

\* NewBlockchain(address, nodeID): genesis bootstrap on an empty store,
\* else the tip is loaded (and the mempool bucket created if missing).
NewBlockchain(s, address, now) ==
  IF ~s.db.hasBlocks
  THEN IF address = ""
       THEN Result(<<>>, "exit", EmptyBytes)
       ELSE LET genesis == NewBlock(<<NewCoinbaseTX(address, "Genesis Block")>>, EmptyBytes, now)
            IN  Result(<<Op("CreateBlocks", EmptyBytes, EmptyBytes),
                         Op("PutBlock", genesis.Hash, Serialize(genesis)),
                         Op("PutL", EmptyBytes, genesis.Hash),
                         Op("CreatePool", EmptyBytes, EmptyBytes),
                         Op("Commit", EmptyBytes, EmptyBytes),
                         Op("SetTip", EmptyBytes, genesis.Hash)>>,
                       "genesis", genesis.Hash)
  ELSE Result((IF s.db.hasPool THEN <<>> ELSE <<Op("CreatePool", EmptyBytes, EmptyBytes)>>)
              \o <<Op("Commit", EmptyBytes, EmptyBytes), Op("SetTip", EmptyBytes, s.db.l)>>,
              "loaded", s.db.l)

\* The first transaction of txs that VerifyTransaction does not accept.
FirstRejected(s, txs) ==
  LET bad == {i \in 1..Len(txs) : VerifyTransaction(s, txs[i]) # "true"}
  IN  IF bad = {} THEN 0 ELSE CHOOSE i \in bad : \A j \in bad : i <= j

\* Mutant of MineBlock: the block is written before the transactions are
\* verified.
MineBlockWriteThenVerify(s, transactions, now) ==
  LET r == FirstRejected(s, transactions)
      newBlock == NewBlock(transactions, s.db.l, now)
  IN  Result(WriteBlock(newBlock), IF r # 0 THEN "panic_invalid" ELSE "mined",
             IF r # 0 THEN EmptyBytes ELSE newBlock.Hash)

\* Blockchain.MineBlock(transactions).
MineBlock(s, transactions, now) ==
  LET r == FirstRejected(s, transactions)
      newBlock == NewBlock(transactions, s.db.l, now)
  IN  IF r # 0
      THEN Result(<<>>,
                  CASE VerifyTransaction(s, transactions[r]) = "false" -> "panic_invalid"
                    [] VerifyTransaction(s, transactions[r]) = "hang" -> "hang"
                    [] OTHER -> "panic_lookup",
                  EmptyBytes)
      ELSE Result(WriteBlock(newBlock), "mined", newBlock.Hash)

\* Mutant of AddBlock: the Update writes the block and the tip pointer but
\* does not assign bc.tip.
AddBlockStaleHandle(s, block) ==
  IF Get(s.db.blocks, block.Hash) # EmptyBytes
  THEN Result(<<Op("Commit", EmptyBytes, EmptyBytes)>>, "exists", block.Hash)
  ELSE Result(<<Op("PutBlock", block.Hash, Serialize(block)),
                Op("PutL", EmptyBytes, block.Hash),
                Op("Commit", EmptyBytes, EmptyBytes)>>, "added", block.Hash)

\* Mutant of AddBlock: no look-up of the hash before the write.
AddBlockNoLookup(s, block) == Result(WriteBlock(block), "added", block.Hash)

\* Mutant of AddBlock: the tip moves only to a block that extends it.
AddBlockIfExtendsTip(s, block) ==
  IF Get(s.db.blocks, block.Hash) # EmptyBytes
  THEN Result(<<Op("Commit", EmptyBytes, EmptyBytes)>>, "exists", block.Hash)
  ELSE IF block.PrevBlockHash = s.db.l THEN Result(WriteBlock(block), "added", block.Hash)
  ELSE Result(<<Op("PutBlock", block.Hash, Serialize(block)),
                Op("Commit", EmptyBytes, EmptyBytes)>>, "added", block.Hash)

\* Blockchain.AddBlock(block).
AddBlock(s, block) ==
  IF Get(s.db.blocks, block.Hash) # EmptyBytes
  THEN Result(<<Op("Commit", EmptyBytes, EmptyBytes)>>, "exists", block.Hash)
  ELSE Result(WriteBlock(block), "added", block.Hash)

\* Blockchain.AddToMempool(tx).
AddToMempool(s, tx) ==
  IF ~s.db.hasPool THEN Result(<<>>, "panic_nobucket", EmptyBytes)
  ELSE Result(<<Op("PutPool", tx.ID, Serialize(tx)), Op("Commit", EmptyBytes, EmptyBytes)>>,
              "pooled", EmptyBytes)

\* For the mutant below: the Put statements that write back the entries of
\* kv under keys.
RECURSIVE PutBack(_, _)
PutBack(kv, keys) ==
  IF keys = {} THEN <<>>
  ELSE LET k == CHOOSE x \in keys : TRUE
       IN  <<Op("PutPool", k, kv[k])>> \o PutBack(kv, keys \ {k})

\* Mutant of ClearMempool: only the entries found in a block are removed.
ClearMempoolMinedOnly(s) ==
  IF ~s.db.hasPool THEN Result(<<>>, "panic_nobucket", EmptyBytes)
  ELSE Result(<<Op("DeletePool", EmptyBytes, EmptyBytes), Op("CreatePool", EmptyBytes, EmptyBytes)>>
              \o PutBack(s.db.pool, {k \in DOMAIN s.db.pool : FindTransaction(s, k).res # "ok"})
              \o <<Op("Commit", EmptyBytes, EmptyBytes)>>, "cleared", EmptyBytes)

\* Blockchain.ClearMempool.
ClearMempool(s) ==
  IF ~s.db.hasPool THEN Result(<<>>, "panic_nobucket", EmptyBytes)
  ELSE Result(<<Op("DeletePool", EmptyBytes, EmptyBytes), Op("CreatePool", EmptyBytes, EmptyBytes),
                Op("Commit", EmptyBytes, EmptyBytes)>>, "cleared", EmptyBytes)

\* The cursor of GetMempool visits the keys in byte order: a fixed total
\* order of the transaction ids.
RECURSIVE InKeyOrder(_, _)
InKeyOrder(kv, keys) ==
  IF keys = {} THEN <<>>
  ELSE LET k == CHOOSE x \in keys : TRUE
       IN  <<kv[k].gob>> \o InKeyOrder(kv, keys \ {k})

\* Blockchain.GetMempool.
GetMempool(s) == InKeyOrder(s.db.pool, DOMAIN s.db.pool)

\* NewUTXOTransaction(from, to, amount, bc): inputs from
\* FindSpendableOutputs, the payment and the change, signed by from.
NewUTXOTransaction(s, from, to, amount) ==
  LET found == FindSpendableOutputs(s, HashPubKey(PubKeyOf(from)), amount)
      vin == [i \in 1..Len(found.outputs) |->
                TXInput(found.outputs[i].txid, found.outputs[i].idx, EmptyBytes, PubKeyOf(from))]
      vout == <<NewTXOutput(amount, to)>> \o
              (IF found.accumulated > amount
               THEN <<NewTXOutput(found.accumulated - amount, from)>> ELSE <<>>)
  IN  IF Chain(s).end # "genesis" THEN [res |-> "panic_chain", tx |-> EmptyBytes]
      ELSE IF found.accumulated < amount THEN [res |-> "panic_funds", tx |-> EmptyBytes]
      ELSE [res |-> "ok",
            tx |-> SignTransaction(s, SetID([ID |-> EmptyBytes, Vin |-> vin, Vout |-> vout]), from)]

\* CLI.createBlockchain(address).
CreateBlockchainCmd(s, address, now) == NewBlockchain(s, address, now)

\* CLI.send(from, to, amount).
SendCmd(s, from, to, amount, now) ==
  LET open == NewBlockchain(s, from, now)
      s1 == After(s, open.ws)
      built == NewUTXOTransaction(s1, from, to, amount)
      add == AddToMempool(s1, built.tx)
  IN  IF built.res # "ok" THEN Result(open.ws, built.res, EmptyBytes)
      ELSE Result(open.ws \o add.ws, add.res, EmptyBytes)

\* CLI.mine(address): the mempool filtered by VerifyTransaction, the
\* coinbase first, MineBlock, ClearMempool.
MineCmd(s, address, now) ==
  LET open == NewBlockchain(s, address, now)
      s1 == After(s, open.ws)
      mempool == GetMempool(s1)
      verdict == [i \in 1..Len(mempool) |-> VerifyTransaction(s1, mempool[i])]
      txs == <<NewCoinbaseTX(address, "")>> \o SelectSeq(mempool, LAMBDA t : VerifyTransaction(s1, t) = "true")
      mined == MineBlock(s1, txs, now)
      s2 == After(s1, mined.ws)
      clear == ClearMempool(s2)
      stuck == {i \in 1..Len(mempool) : verdict[i] \in {"panic", "hang"}}
  IN  IF stuck # {}
      THEN Result(open.ws,
                  IF verdict[CHOOSE i \in stuck : \A j \in stuck : i <= j] = "hang"
                  THEN "hang" ELSE "panic_lookup",
                  EmptyBytes)
      ELSE IF mined.res # "mined" THEN Result(open.ws \o mined.ws, mined.res, EmptyBytes)
      ELSE Result(open.ws \o mined.ws \o clear.ws, mined.res, mined.h)

\* ------------------------------------------------------------- environment

\* time.Now().Unix() as the commands may read it.
Timestamps == {1}

GenesisAddrs == {"A"}
Senders == {"A"}
Recipients == {"A", "B"}
Miners == {"C"}
Amounts == {3}
\* The address a peer node mines to, and the one that forges transactions.
PeerAddr == "B"
Thief == "C"

\* A block as a peer mines it on prev.
PeerBlock(txs, prev, now) == NewBlock(txs, prev, now)

\* A block that carries the hash of another block.
Mislabelled(txs, prev, now) ==
  [PeerBlock(txs, prev, now) EXCEPT !.Hash = PeerBlock(txs, prev, now + 1).Hash]

PeerGenesis(now) == PeerBlock(<<NewCoinbaseTX(PeerAddr, "Genesis Block")>>, EmptyBytes, now)

\* The blocks the network layer may hand to AddBlock: a block the store
\* holds already, the genesis of a peer that bootstrapped its own chain, a
\* block mined on the tip or on the peer's genesis, and a block that
\* carries a hash that is not its digest.
PeerBlocks(s) ==
  LET cb == <<NewCoinbaseTX(PeerAddr, "")>>
  IN  {DeserializeBlock(s.db.blocks[h]) : h \in DOMAIN s.db.blocks}
      \cup {PeerGenesis(now) : now \in Timestamps}
      \cup {PeerBlock(cb, prev, now) :
              prev \in {s.db.l, PeerGenesis(1).Hash}, now \in Timestamps}
      \cup {Mislabelled(cb, s.db.l, now) : now \in Timestamps}

\* An output of the chain with its place, as Thief may target it.
Targets(s) ==
  LET ps == FindUTXOPlaces(s, AddrFingerprint("A"))
  IN  {ps[i] : i \in 1..Len(ps) \cap {1}}

\* A spend of place p signed by signer with the public key of holder in the
\* input, paying to.
Forge(s, p, holder, signer, to) ==
  Sign(SetID([ID |-> EmptyBytes,
              Vin |-> <<TXInput(p.txid, p.idx, EmptyBytes, PubKeyOf(holder))>>,
              Vout |-> <<NewTXOutput(p.out.Value, to)>>]),
       signer, {FindTransaction(s, p.txid).tx})

\* A transaction whose input names a transaction that is in no block.
Dangling ==
  LET absent == NewCoinbaseTX(Thief, "absent")
  IN  Sign(SetID([ID |-> EmptyBytes,
                  Vin |-> <<TXInput(absent.ID, 0, EmptyBytes, PubKeyOf(Thief))>>,
                  Vout |-> <<NewTXOutput(subsidy, Thief)>>]),
           Thief, {absent})

\* The transactions the network layer may hand to AddToMempool: a theft (a
\* valid signature by a key the output is not locked to), a spend with a
\* signature by the wrong key, and a spend of an unknown transaction.
CraftedTxs(s) ==
  {Forge(s, p, Thief, Thief, Thief) : p \in Targets(s)}
  \cup {Forge(s, p, "A", Thief, Thief) : p \in Targets(s)}
  \cup {Dangling}

\* ------------------------------------------------------------------- state

VARIABLES
  db,    \* the committed content of the store file
  tip,   \* Blockchain.tip of the handle in use
  run,   \* the handler in progress: its remaining steps and open transaction
  out    \* the last handler that ended: [op, res, h]

vars == <<db, tip, run, out>>

Idle == [ws |-> <<>>, view |-> EmptyDB, op |-> "", res |-> "", h |-> EmptyBytes]

Ledger == [db |-> db, tip |-> tip]

Init ==
  /\ db = EmptyDB
  /\ tip = NoHandle
  /\ run = Idle
  /\ out = [op |-> "init", res |-> "", h |-> EmptyBytes]

Bounded(s) ==
  /\ Cardinality(DOMAIN s.db.blocks) <= MaxBlocks
  /\ Cardinality(DOMAIN s.db.pool) <= MaxPool

\* A handler run to its end in one step.
Do(op, r) ==
  LET e == After(Ledger, r.ws)
  IN  /\ run = Idle
      /\ Bounded(e)
      /\ db' = e.db
      /\ tip' = e.tip
      /\ out' = [op |-> op, res |-> r.res, h |-> r.h]
      /\ UNCHANGED run

HasHandle == tip # NoHandle /\ db.hasBlocks

DoCreateBlockchain ==
  \E a \in GenesisAddrs, now \in Timestamps :
     Do("createblockchain", CreateBlockchainCmd(Ledger, a, now))

DoSend ==
  \E from \in Senders, to \in Recipients, amount \in Amounts, now \in Timestamps :
     Do("send", SendCmd(Ledger, from, to, amount, now))

DoMine ==
  \E a \in Miners, now \in Timestamps : Do("mine", MineCmd(Ledger, a, now))

DoAddBlock ==
  /\ HasHandle
  /\ \E b \in PeerBlocks(Ledger) : Do("AddBlock", AddBlock(Ledger, b))

DoAddToMempool ==
  /\ HasHandle
  /\ Chain(Ledger).end = "genesis"
  /\ \E tx \in CraftedTxs(Ledger) : Do("AddToMempool", AddToMempool(Ledger, tx))

DoMineBlock ==
  /\ HasHandle
  /\ \E a \in Miners, now \in Timestamps :
        Do("MineBlock", MineBlock(Ledger, <<NewCoinbaseTX(a, "")>> \o GetMempool(Ledger), now))

DoClearMempool ==
  /\ HasHandle
  /\ Do("ClearMempool", ClearMempool(Ledger))

Next ==
  \/ DoCreateBlockchain
  \/ DoSend
  \/ DoMine
  \/ DoAddBlock
  \/ DoAddToMempool
  \/ DoMineBlock
  \/ DoClearMempool

Spec == Init /\ [][Next]_vars

\* ------------------------------------------------ the handlers step by step
\* The same handlers, one step of the store transaction at a time: a
\* reader sees db, the open transaction works on run.view.

Running == [op |-> "running", res |-> "", h |-> EmptyBytes]

Begin(op, r) ==
  /\ run = Idle
  /\ Bounded(After(Ledger, r.ws))
  /\ run' = [ws |-> r.ws, view |-> db, op |-> op, res |-> r.res, h |-> r.h]
  /\ out' = Running
  /\ UNCHANGED <<db, tip>>

BeginCreateBlockchain ==
  \E a \in GenesisAddrs, now \in Timestamps :
     Begin("createblockchain", CreateBlockchainCmd(Ledger, a, now))

BeginSend ==
  \E from \in Senders, to \in Recipients, amount \in Amounts, now \in Timestamps :
     Begin("send", SendCmd(Ledger, from, to, amount, now))

BeginMine ==
  \E a \in Miners, now \in Timestamps : Begin("mine", MineCmd(Ledger, a, now))

BeginAddBlock ==
  /\ HasHandle
  /\ \E b \in PeerBlocks(Ledger) : Begin("AddBlock", AddBlock(Ledger, b))

BeginMineBlock ==
  /\ HasHandle
  /\ \E a \in Miners, now \in Timestamps :
        Begin("MineBlock", MineBlock(Ledger, <<NewCoinbaseTX(a, "")>> \o GetMempool(Ledger), now))

BeginClearMempool ==
  /\ HasHandle
  /\ Begin("ClearMempool", ClearMempool(Ledger))

\* The next step of the handler in progress.
Step ==
  /\ run.op # ""
  /\ run.ws # <<>>
  /\ LET e == Apply([db |-> db, view |-> run.view, tip |-> tip], Head(run.ws))
     IN  /\ db' = e.db
         /\ tip' = e.tip
         /\ run' = [run EXCEPT !.ws = Tail(run.ws),
                               !.view = IF Head(run.ws).w = "Commit" THEN e.db ELSE e.view]
  /\ UNCHANGED out

\* The handler returns (or panics): an Update left open is rolled back.
End ==
  /\ run.op # ""
  /\ run.ws = <<>>
  /\ out' = [op |-> run.op, res |-> run.res, h |-> run.h]
  /\ run' = Idle
  /\ UNCHANGED <<db, tip>>

\* The process is stopped: the open Update is rolled back, the handle is gone.
Stop ==
  /\ run.op # ""
  /\ run' = Idle
  /\ tip' = NoHandle
  /\ out' = [op |-> "stop", res |-> "", h |-> EmptyBytes]
  /\ UNCHANGED db

NextSteps ==
  \/ BeginCreateBlockchain
  \/ BeginSend
  \/ BeginMine
  \/ BeginAddBlock
  \/ BeginMineBlock
  \/ BeginClearMempool
  \/ Step
  \/ End
  \/ Stop

SpecSteps == Init /\ [][NextSteps]_vars

\* --------------------------------------------- the miner under a moving clock
\* Bootstrap and MineBlock for every reward address at the times of Clock:
\* the data the nonce search runs on varies with the time of the call.

Clock == 1..4

BootstrapAt ==
  \E a \in Addrs, now \in Clock :
     Do("createblockchain", CreateBlockchainCmd(Ledger, a, now))

MineBlockAt ==
  /\ HasHandle
  /\ \E a \in Addrs, now \in Clock :
        Do("MineBlock", MineBlock(Ledger, <<NewCoinbaseTX(a, "")>> \o GetMempool(Ledger), now))

NextClock ==
  \/ BootstrapAt
  \/ MineBlockAt

SpecClock == Init /\ [][NextClock]_vars

\* ------------------------------------------- the node's concurrent callers
\* One ledger handle shared by the callers of a running node: a miner whose
\* MineBlock is split where the code splits it (the View that reads "l",
\* then the Update that writes), block ingestion, mempool writes and a
\* chain iteration taken one Next at a time. Each View and each Update is
\* one step, as the store runs it.

\* Blockchain.GetBestHeight(): the blocks counted by the loop, when it ends.
GetBestHeight(s) ==
  LET c == Chain(s)
  IN  [res |-> IF c.end = "genesis" THEN "ok" ELSE c.end,
       height |-> IF c.end = "genesis" THEN Len(c.blocks) ELSE 0]

\* Blockchain.GetBlockHashes(): the hashes collected by the loop, when it ends.
GetBlockHashes(s) ==
  LET c == Chain(s)
  IN  [res |-> IF c.end = "genesis" THEN "ok" ELSE c.end,
       blocks |-> IF c.end = "genesis"
                  THEN [i \in 1..Len(c.blocks) |-> c.blocks[i].Hash] ELSE <<>>]

\* Blockchain.GetBlock(blockHash).
GetBlock(s, blockHash) ==
  IF Get(s.db.blocks, blockHash) = EmptyBytes
  THEN [res |-> "Block is not found.", block |-> EmptyBytes]
  ELSE [res |-> "ok", block |-> DeserializeBlock(s.db.blocks[blockHash])]

\* The block the node's miner seals next on a peer's genesis.
NextOnPeerGenesis(a, now) == NewBlock(<<NewCoinbaseTX(a, "")>>, PeerGenesis(now).Hash, now)

\* A peer's block on prev that carries, as its hash, the hash of the block
\* the node's miner will seal on the peer's genesis.
Squatter(prev, a, now) ==
  [PeerBlock(<<NewCoinbaseTX(PeerAddr, "")>>, prev, now)
     EXCEPT !.Hash = NextOnPeerGenesis(a, now).Hash]

\* The blocks peers hand to the running node.
NodePeerBlocks(s) ==
  {PeerGenesis(now) : now \in Timestamps}
  \cup {PeerBlock(<<NewCoinbaseTX(PeerAddr, "")>>, s.db.l, now) : now \in Timestamps}
  \cup {Squatter(s.db.l, a, now) : a \in Miners, now \in Timestamps}

\* The transactions peers hand to the running node: a spend of an output
\* of the chain that Thief signs with its own key.
NodeTxs(s) == {Forge(s, p, Thief, Thief, Thief) : p \in Targets(s)}

\* No MineBlock between its two store transactions, no iteration under way.
NodeIdle ==
  [mining |-> FALSE, transactions |-> <<>>, lastHash |-> EmptyBytes, now |-> 0,
   iterating |-> FALSE, T |-> EmptyBytes, expected |-> <<>>,
   currentHash |-> EmptyBytes, returned |-> <<>>]

InitNode ==
  /\ db = EmptyDB
  /\ tip = NoHandle
  /\ run = NodeIdle
  /\ out = [op |-> "init", res |-> "", h |-> EmptyBytes]

\* One store transaction of a caller, run to its commit.
Commit(op, r) ==
  LET e == After(Ledger, r.ws)
  IN  /\ Cardinality(DOMAIN e.db.blocks) <= MaxBlocks + 1
      /\ Cardinality(DOMAIN e.db.pool) <= MaxPool
      /\ db' = e.db
      /\ tip' = e.tip
      /\ out' = [op |-> op, res |-> r.res, h |-> r.h]

\* The node is started on an empty store: NewBlockchain bootstraps.
NodeStart ==
  /\ ~db.hasBlocks
  /\ \E a \in GenesisAddrs, now \in Timestamps :
        Commit("NewBlockchain", NewBlockchain(Ledger, a, now))
  /\ UNCHANGED run

NodeAddBlock ==
  /\ HasHandle
  /\ \E b \in NodePeerBlocks(Ledger) : Commit("AddBlock", AddBlock(Ledger, b))
  /\ UNCHANGED run

NodeAddToMempool ==
  /\ HasHandle
  /\ Chain(Ledger).end = "genesis"
  /\ \E tx \in NodeTxs(Ledger) : Commit("AddToMempool", AddToMempool(Ledger, tx))
  /\ UNCHANGED run

NodeClearMempool ==
  /\ HasHandle
  /\ Commit("ClearMempool", ClearMempool(Ledger))
  /\ UNCHANGED run

\* MineBlock up to the end of its View: the transactions are verified and
\* lastHash is read from "l".
MineRead ==
  /\ HasHandle
  /\ ~run.mining
  /\ \E a \in Miners, now \in Timestamps :
       LET transactions == <<NewCoinbaseTX(a, "")>> \o GetMempool(Ledger)
           r == MineBlock(Ledger, transactions, now)
       IN  IF r.res # "mined"
           THEN /\ out' = [op |-> "MineBlock", res |-> r.res, h |-> r.h]
                /\ UNCHANGED run
           ELSE /\ out' = [op |-> "MineBlock", res |-> "sealing", h |-> db.l]
                /\ run' = [run EXCEPT !.mining = TRUE, !.transactions = transactions,
                                      !.lastHash = db.l, !.now = now]
  /\ UNCHANGED <<db, tip>>

\* The rest of MineBlock: NewBlock on the lastHash read before, and the
\* Update that writes the block, "l" and bc.tip.
MineWrite ==
  /\ run.mining
  /\ LET newBlock == NewBlock(run.transactions, run.lastHash, run.now)
     IN  Commit("MineBlock", Result(WriteBlock(newBlock), "mined", newBlock.Hash))
  /\ run' = [run EXCEPT !.mining = FALSE, !.transactions = <<>>,
                        !.lastHash = EmptyBytes, !.now = 0]

\* Blockchain.Iterator(): the iterator starts at bc.tip. expected is what
\* the chain from that tip is at this moment (kept for the properties).
IterStart ==
  /\ HasHandle
  /\ ~run.iterating
  /\ run' = [run EXCEPT !.iterating = TRUE, !.T = tip, !.expected = Chain(Ledger).blocks,
                        !.currentHash = tip, !.returned = <<>>]
  /\ out' = [op |-> "Iterator", res |-> "", h |-> tip]
  /\ UNCHANGED <<db, tip>>

\* The iterator is dropped when the caller's loop is over.
Dropped(r) ==
  [r EXCEPT !.iterating = FALSE, !.T = EmptyBytes, !.expected = <<>>,
            !.currentHash = EmptyBytes, !.returned = <<>>]

\* BlockchainIterator.Next(): one View; the caller's loop ends at a block
\* with an empty PrevBlockHash.
IterNext ==
  /\ run.iterating
  /\ IF run.currentHash \notin DOMAIN db.blocks
     THEN /\ run' = Dropped(run)
          /\ out' = [op |-> "Next", res |-> "panic", h |-> run.currentHash]
     ELSE LET block == DeserializeBlock(db.blocks[run.currentHash])
          IN  IF block.PrevBlockHash = EmptyBytes \/ Len(run.returned) > MaxBlocks
              THEN /\ run' = Dropped(run)
                   /\ out' = [op |-> "Next",
                              res |-> IF block.PrevBlockHash = EmptyBytes
                                      THEN "done" ELSE "loop",
                              h |-> block.Hash]
              ELSE /\ run' = [run EXCEPT !.currentHash = block.PrevBlockHash,
                                         !.returned = Append(run.returned, block)]
                   /\ out' = [op |-> "Next", res |-> "more", h |-> block.Hash]
  /\ UNCHANGED <<db, tip>>

NextNode ==
  \/ NodeStart
  \/ NodeAddBlock
  \/ NodeAddToMempool
  \/ NodeClearMempool
  \/ MineRead
  \/ MineWrite
  \/ IterStart
  \/ IterNext

SpecNode == InitNode /\ [][NextNode]_vars

\* ------------------------------------------------------- the wallet file
\* The wallet collection and wallets.dat are a second store of the
\* program. SpecWallets keeps them in the state variables of the module:
\* db is the content of wallets.dat, run the Wallets value of the running
\* process, out the last operation; tip is not used.

MaxWallets == 3

\* The number of bytes LoadFromFile takes for the private scalar (data[:32]
\* in the code), and the private scalars of the model: some need fewer
\* bytes than that.
KeyLen == 2
Scalars == {1, 255, 256, 4660, 65535}

\* big.Int.Bytes(): the big-endian bytes of n without leading zero bytes.
RECURSIVE BigBytes(_)
BigBytes(n) == IF n = 0 THEN <<>> ELSE Append(BigBytes(n \div 256), n % 256)

\* big.Int.SetBytes(buf): buf read as a big-endian unsigned integer.
RECURSIVE SetBytes(_)
SetBytes(buf) ==
  IF buf = <<>> THEN 0
  ELSE SetBytes(SubSeq(buf, 1, Len(buf) - 1)) * 256 + buf[Len(buf)]

\* n in exactly len big-endian bytes.
RECURSIVE FixedBytes(_, _)
FixedBytes(n, len) ==
  IF len = 0 THEN <<>> ELSE Append(FixedBytes(n \div 256, len - 1), n % 256)

\* The public point of private scalar d.
PointX(d) == (3 * d + 7) % 65536
PointY(d) == (5 * d + 11) % 65536

\* NewWallet() for the key pair of scalar d: the private key (D and the
\* public point) and the public key bytes X || Y.
NewWallet(d) ==
  [D |-> d, X |-> PointX(d), Y |-> PointY(d),
   PublicKey |-> FixedBytes(PointX(d), KeyLen) \o FixedBytes(PointY(d), KeyLen)]

\* Wallet.GetAddress(): the address is derived from the public key bytes.
GetAddress(w) == [version |-> 0, fingerprint |-> w.PublicKey]

NoWallets == [a \in {} |-> NewWallet(1)]
NoFile == [exists |-> FALSE]

\* Wallets.SaveToFile: every wallet as D.Bytes() followed by the public key
\* bytes, the map of these encoded into the file.
SaveToFile(ws) ==
  [exists |-> TRUE,
   gob |-> [a \in DOMAIN ws |-> BigBytes(ws[a].D) \o ws[a].PublicKey]]

\* The wallet LoadFromFile rebuilds from data.
Rebuilt(data) ==
  LET pubKey == SubSeq(data, KeyLen + 1, Len(data))
  IN  [D |-> SetBytes(SubSeq(data, 1, KeyLen)),
       X |-> SetBytes(SubSeq(pubKey, 1, Len(pubKey) \div 2)),
       Y |-> SetBytes(SubSeq(pubKey, Len(pubKey) \div 2 + 1, Len(pubKey))),
       PublicKey |-> pubKey]

\* Wallets.LoadFromFile into collection ws: the error when there is no
\* file, the panic of data[:32] on a short entry, else every entry of the
\* file put into ws.
LoadFromFile(file, ws) ==
  IF ~file.exists THEN [res |-> "notexist", ws |-> ws]
  ELSE IF \E a \in DOMAIN file.gob : Len(file.gob[a]) < KeyLen
  THEN [res |-> "panic", ws |-> ws]
  ELSE [res |-> "ok",
        ws |-> [a \in DOMAIN ws \cup DOMAIN file.gob |->
                  IF a \in DOMAIN file.gob THEN Rebuilt(file.gob[a]) ELSE ws[a]]]

InitWallets ==
  /\ db = NoFile
  /\ tip = NoHandle
  /\ run = NoWallets
  /\ out = [op |-> "init", res |-> "", h |-> EmptyBytes]

\* NewWallets() at the start of a command: an empty collection filled from
\* the file.
DoNewWallets ==
  /\ run' = LoadFromFile(db, NoWallets).ws
  /\ out' = [op |-> "LoadFromFile", res |-> LoadFromFile(db, NoWallets).res, h |-> EmptyBytes]
  /\ UNCHANGED <<db, tip>>

\* Wallets.CreateWallet().
DoCreateWallet ==
  /\ Cardinality(DOMAIN run) < MaxWallets
  /\ \E d \in Scalars :
        /\ GetAddress(NewWallet(d)) \notin DOMAIN run
        /\ run' = [a \in DOMAIN run \cup {GetAddress(NewWallet(d))} |->
                     IF a = GetAddress(NewWallet(d)) THEN NewWallet(d) ELSE run[a]]
  /\ out' = [op |-> "CreateWallet", res |-> "", h |-> EmptyBytes]
  /\ UNCHANGED <<db, tip>>

DoSaveToFile ==
  /\ db' = SaveToFile(run)
  /\ out' = [op |-> "SaveToFile", res |-> "", h |-> EmptyBytes]
  /\ UNCHANGED <<tip, run>>

NextWallets ==
  \/ DoNewWallets
  \/ DoCreateWallet
  \/ DoSaveToFile

SpecWallets == InitWallets /\ [][NextWallets]_vars

\* ------------------------------------------------------------- properties

Fingerprints == {AddrFingerprint(a) : a \in Addrs}

\* The chain behind the handle can be read from the tip to a genesis block.
Readable == HasHandle /\ Chain(Ledger).end = "genesis"

\* Every output of the chain with its place.
ChainPlaces ==
  {[txid |-> ChainTxs(Ledger)[t].ID, idx |-> i - 1, out |-> ChainTxs(Ledger)[t].Vout[i]] :
     <<t, i>> \in {<<t, i>> \in (1..Len(ChainTxs(Ledger))) \X (1..2) :
                     i <= Len(ChainTxs(Ledger)[t].Vout)}}

\* Every input of a non-coinbase transaction of the chain, as (position of
\* the transaction, position of the input).
ChainInputs ==
  {<<t, i>> \in (1..Len(ChainTxs(Ledger))) \X (1..2) :
     /\ ~IsCoinbase(ChainTxs(Ledger)[t])
     /\ i <= Len(ChainTxs(Ledger)[t].Vin)}

Ref(ti) == <<ChainTxs(Ledger)[ti[1]].Vin[ti[2]].Txid, ChainTxs(Ledger)[ti[1]].Vin[ti[2]].Vout>>

Referenced(p) == \E ti \in ChainInputs : Ref(ti) = <<p.txid, p.idx>>

\* C1: on a readable chain, FindUTXO(f) contains an output exactly when the
\* output is locked to f and no input of a transaction of the chain
\* references its (txid, index) pair.
C1_FindUTXOIsUnspentLocked ==
  Readable =>
    \A f \in Fingerprints :
      {FindUTXOPlaces(Ledger, f)[i] : i \in 1..Len(FindUTXOPlaces(Ledger, f))}
        = {p \in ChainPlaces : IsLockedWithKey(p.out, f) /\ ~Referenced(p)}

\* C2: on a readable chain, no two inputs of the transactions of the chain
\* reference the same (txid, index) pair.
C2_OutputSpentAtMostOnce ==
  Readable =>
    \A ti, tj \in ChainInputs : ti # tj => Ref(ti) # Ref(tj)

\* The block MineBlock or the mine command has just stored.
Mined == out.op \in {"mine", "MineBlock"} /\ out.res = "mined"

MinedBlock == DeserializeBlock(db.blocks[out.h])

\* Input in of a mined transaction spends an output locked to the hash of
\* the public key the input carries.
PaysToKey(in) ==
  LET prev == FindTransaction(Ledger, in.Txid)
  IN  /\ prev.res = "ok"
      /\ in.Vout + 1 \in 1..Len(prev.tx.Vout)
      /\ IsLockedWithKey(prev.tx.Vout[in.Vout + 1], HashPubKey(in.PubKey))

\* C3: in a block that MineBlock has stored, every input of a non-coinbase
\* transaction spends an output whose lock is the hash of the input's
\* public key.
C3_MinedInputsPayToKey ==
  Mined =>
    \A t \in 1..Len(MinedBlock.Transactions) :
      ~IsCoinbase(MinedBlock.Transactions[t]) =>
        \A i \in 1..Len(MinedBlock.Transactions[t].Vin) :
          PaysToKey(MinedBlock.Transactions[t].Vin[i])

\* C4: at every step of every handler, a store that has the blocks bucket
\* holds under "l" the hash of a block record that is present and whole.
C4_TipNamesStoredBlock ==
  db.hasBlocks =>
    /\ db.l \in DOMAIN db.blocks
    /\ DeserializeBlock(db.blocks[db.l]).Hash = db.l

\* An Update is open in which the new block and the new tip are written and
\* not yet committed.
C4_MidUpdate ==
  /\ run.op \in {"MineBlock", "AddBlock", "createblockchain", "mine"}
  /\ run.view.hasBlocks
  /\ run.view.l \in DOMAIN run.view.blocks
  /\ run.view.l \notin DOMAIN db.blocks

\* C5: every stored block carries the digest of its own fields as its hash,
\* and that digest is below the target.
C5_StoredBlocksAreSealed ==
  \A h \in DOMAIN db.blocks :
    /\ DeserializeBlock(db.blocks[h]).Hash = CalculateHash(DeserializeBlock(db.blocks[h]))
    /\ Validate(DeserializeBlock(db.blocks[h]))

\* C6: AddBlock of a block whose hash is stored changes neither the store
\* (blocks, "l", mempool) nor the handle's tip nor the length of the chain.
C6_AddBlockStoredIsNoOp ==
  [][(out'.op = "AddBlock" /\ out'.h \in DOMAIN db.blocks)
       => /\ db' = db
          /\ tip' = tip
          /\ Len(Chain([db |-> db', tip |-> tip']).blocks) = Len(Chain(Ledger).blocks)]_vars

\* AddBlock was called with a stored block that is not the tip.
C6_ReAddedOldBlock ==
  /\ out.op = "AddBlock"
  /\ out.h \in DOMAIN db.blocks
  /\ out.h # db.l
  /\ tip = db.l

\* C7: AddBlock of a block whose hash is not stored stores the block under
\* its hash and sets "l" and the handle's tip to that hash.
C7_AddBlockNewMovesTip ==
  [][(out'.op = "AddBlock" /\ out'.h \notin DOMAIN db.blocks)
       => /\ out'.h \in DOMAIN db'.blocks
          /\ DeserializeBlock(db'.blocks[out'.h]) \in PeerBlocks(Ledger)
          /\ DeserializeBlock(db'.blocks[out'.h]).Hash = out'.h
          /\ db'.l = out'.h
          /\ tip' = out'.h]_vars

\* AddBlock has made a block the tip whose previous hash names no stored
\* block, on a store that held a chain.
C7_OrphanBecameTip ==
  /\ out.op = "AddBlock"
  /\ out.res = "added"
  /\ db.l = out.h
  /\ tip = out.h
  /\ DeserializeBlock(db.blocks[out.h]).PrevBlockHash \notin DOMAIN db.blocks
  /\ DeserializeBlock(db.blocks[out.h]).PrevBlockHash # EmptyBytes

\* C8: MineBlock with a transaction that fails verification produces no
\* block and leaves the store (blocks, "l", mempool) and the handle's tip
\* as they were.
C8_MineBlockAbortChangesNothing ==
  [][(/\ out'.op = "MineBlock"
      /\ \E i \in 1..Len(GetMempool(Ledger)) :
            VerifyTransaction(Ledger, GetMempool(Ledger)[i]) # "true")
       => (db' = db /\ tip' = tip /\ out'.res # "mined")]_vars

\* MineBlock has aborted on a mempool that holds a rejected transaction.
C8_Aborted ==
  /\ out.op = "MineBlock"
  /\ out.res = "panic_invalid"
  /\ db.pool # <<>>
  /\ Readable

\* C9: verification of a mempool entry answers true or false and never
\* aborts, and the mine command completes whatever the mempool holds.
C9_VerificationNeverAborts ==
  /\ Readable =>
       \A i \in 1..Len(GetMempool(Ledger)) :
         VerifyTransaction(Ledger, GetMempool(Ledger)[i]) \in {"true", "false"}
  /\ (out.op = "mine" /\ Readable) => out.res = "mined"

\* The ledger after createblockchain for address a on an empty store.
GenesisLedger(a) ==
  After([db |-> EmptyDB, tip |-> NoHandle], NewBlockchain([db |-> EmptyDB, tip |-> NoHandle], a, 1).ws)

\* The chain is the genesis block of A alone.
GenesisOnly ==
  /\ Readable
  /\ db.blocks = GenesisLedger("A").db.blocks
  /\ db.l = GenesisLedger("A").db.l

\* The transfer of k from A to B made on the genesis ledger of A.
Transfer(k) == NewUTXOTransaction(GenesisLedger("A"), "A", "B", k).tx

\* The chain is the genesis block of A and one block mined by m with the
\* transfer of k.
TransferMined(m, k) ==
  /\ Readable
  /\ Mined
  /\ ChainTxs(Ledger) = <<NewCoinbaseTX(m, ""), Transfer(k), NewCoinbaseTX("A", "Genesis Block")>>

Sealed ==
  /\ out.op \in {"createblockchain", "send", "mine", "MineBlock"}
  /\ out.res \in {"genesis", "mined"}
  /\ out.h \in DOMAIN db.blocks

SealedBlock == DeserializeBlock(db.blocks[out.h])

\* C11: the block NewBlock has just built from what Run returned passes
\* Validate, and its Hash is the digest of its fields with its Nonce.
C11_RunThenValidate ==
  Sealed => /\ Validate(SealedBlock)
            /\ SealedBlock.Hash = CalculateHash(SealedBlock)

\* Some nonce of the search range gives block b a digest below the target.
Solvable(b) == \E nonce \in 0..(maxNonce - 1) : HashInt(PowHash(b, nonce)) < target

\* C12: a block is sealed, stored and made the tip by bootstrap or
\* MineBlock only if some nonce below maxNonce gives it a digest below the
\* target; otherwise the search fails and nothing is stored.
C12_ExhaustedSearchFails ==
  Sealed => Solvable(SealedBlock)

\* C13: from the tip of every ledger a handle is open on, the iteration
\* finds a stored block under every previous hash it dereferences and ends
\* at a block with an empty previous hash.
C13_IterationReachesGenesis ==
  HasHandle => Chain(Ledger).end = "genesis"

\* The stored blocks with an empty previous hash.
GenesisBlocks ==
  {h \in DOMAIN db.blocks : DeserializeBlock(db.blocks[h]).PrevBlockHash = EmptyBytes}

\* C14: a store that has the blocks bucket holds exactly one block with an
\* empty previous hash.
C14_OneGenesis ==
  db.hasBlocks => Cardinality(GenesisBlocks) = 1

\* C15: ClearMempool never fails on an open ledger and leaves an existing,
\* empty mempool bucket; the bucket exists in every state a reader can see;
\* no step of ClearMempool changes the blocks, "l" or the handle's tip.
C15_ClearMempoolWipesAll ==
  /\ [](out.op = "ClearMempool"
          => (out.res = "cleared" /\ db.hasPool /\ db.pool = <<>> /\ GetMempool(Ledger) = <<>>))
  /\ [](db.hasBlocks => db.hasPool)
  /\ [][(run.op = "ClearMempool" /\ out'.op # "stop")
          => /\ db'.hasBlocks = db.hasBlocks
             /\ db'.blocks = db.blocks
             /\ db'.l = db.l
             /\ tip' = tip]_vars

\* ClearMempool is about to commit the wipe of a mempool that holds a
\* transaction that is in no block.
C15_WipingUnmined ==
  /\ run.op = "ClearMempool"
  /\ Len(run.ws) = 1
  /\ run.view.hasPool
  /\ run.view.pool = <<>>
  /\ \E k \in DOMAIN db.pool : FindTransaction(Ledger, k).res = "notfound"

\* The ledger as a process that opens the store sees it.
Persisted == [db |-> db, tip |-> db.l]

\* C16: between operations, no key of the mempool is the id of a
\* transaction in a block reachable from the persisted tip.
C16_MempoolHoldsUnminedOnly ==
  (run = Idle /\ db.hasBlocks) =>
    \A k \in DOMAIN db.pool :
      \A i \in 1..Len(ChainTxs(Persisted)) : ChainTxs(Persisted)[i].ID # k

\* C17: a transaction that AddToMempool stores passes VerifyTransaction
\* against the chain of the moment it is submitted.
C17_AdmittedOnlyIfVerified ==
  [][(out'.op = "AddToMempool" /\ out'.res = "pooled")
       => \A k \in DOMAIN db'.pool \ DOMAIN db.pool :
            VerifyTransaction(Ledger, db'.pool[k].gob) = "true"]_vars

\* The transaction ids a caller may ask for: those of the stored blocks,
\* those of the mempool, and one that is nowhere.
KnownIds ==
  UNION {{DeserializeBlock(db.blocks[h]).Transactions[i].ID :
            i \in 1..Len(DeserializeBlock(db.blocks[h]).Transactions)} : h \in DOMAIN db.blocks}
  \cup DOMAIN db.pool
  \cup {NewCoinbaseTX(Thief, "absent").ID}

\* The positions, in scan order from the tip, of the transactions with id.
Occurrences(id) == {i \in 1..Len(ChainTxs(Ledger)) : ChainTxs(Ledger)[i].ID = id}

\* C18: on an open ledger FindTransaction(id) returns the occurrence of id
\* nearest the tip when a block reachable from the tip holds one, and the
\* error "Transaction is not found" (no abort) when none does.
C18_FindTransactionOrNotFound ==
  HasHandle =>
    \A id \in KnownIds :
      IF Occurrences(id) # {}
      THEN /\ FindTransaction(Ledger, id).res = "ok"
           /\ FindTransaction(Ledger, id).tx.ID = id
           /\ \E i \in Occurrences(id) :
                /\ FindTransaction(Ledger, id).tx = ChainTxs(Ledger)[i]
                /\ \A j \in Occurrences(id) : i <= j
      ELSE FindTransaction(Ledger, id).res = "notfound"

\* C19: createblockchain on a store without a chain leaves exactly one
\* block: stored under its hash, with an empty previous hash and one
\* transaction, a coinbase paying the reward address; "l" and the handle's
\* tip are that hash; the mempool bucket exists and is empty.
C19_BootstrapYieldsGenesis ==
  [][(~db.hasBlocks /\ out'.op = "createblockchain")
       => /\ db'.hasBlocks
          /\ DOMAIN db'.blocks = {out'.h}
          /\ DeserializeBlock(db'.blocks[out'.h]).Hash = out'.h
          /\ DeserializeBlock(db'.blocks[out'.h]).PrevBlockHash = EmptyBytes
          /\ Len(DeserializeBlock(db'.blocks[out'.h]).Transactions) = 1
          /\ IsCoinbase(DeserializeBlock(db'.blocks[out'.h]).Transactions[1])
          /\ \E a \in GenesisAddrs :
               DeserializeBlock(db'.blocks[out'.h]).Transactions[1].Vout
                 = <<NewTXOutput(subsidy, a)>>
          /\ db'.l = out'.h
          /\ tip' = out'.h
          /\ db'.hasPool
          /\ db'.pool = <<>>]_vars

\* createblockchain has bootstrapped the chain.
C19_Bootstrapped ==
  /\ out.op = "createblockchain"
  /\ out.res = "genesis"
  /\ db.l = out.h

\* The ledger a new process gets from NewBlockchain(a) on the store as it is.
Reopened(a, now) ==
  After([db |-> db, tip |-> NoHandle], NewBlockchain([db |-> db, tip |-> NoHandle], a, now).ws)

\* C20: opening a store that holds a chain, with any address or none,
\* changes no block record, not "l" and not the mempool, makes no genesis
\* block, and gives a handle whose tip is "l"; no step of the open changes
\* the store.
C20_ReopenKeepsLedger ==
  /\ [](db.hasBlocks =>
          \A a \in Addrs \cup {""}, now \in Clock :
            /\ NewBlockchain([db |-> db, tip |-> NoHandle], a, now).res = "loaded"
            /\ Reopened(a, now).db = db
            /\ Reopened(a, now).tip = db.l)
  /\ [][(run.op = "createblockchain" /\ run.res = "loaded" /\ out'.op # "stop")
          => /\ db' = db
             /\ out'.op = "createblockchain" => (tip' = db.l /\ out'.h = db.l)]_vars

\* A store stopped in the middle of an operation has been opened again: it
\* holds a mined block and a mempool entry.
C20_ReopenedAfterMining ==
  /\ out.op = "createblockchain"
  /\ out.res = "loaded"
  /\ tip = db.l
  /\ Len(Chain(Ledger).blocks) >= 2
  /\ db.pool # <<>>

\* C21: the block store is append-only: a record stored under hash h is
\* neither changed nor deleted by any later step (bootstrap, MineBlock,
\* AddBlock, AddToMempool, ClearMempool).
C21_BlockStoreAppendOnly ==
  [][\A h \in DOMAIN db.blocks :
       h \in DOMAIN db'.blocks /\ db'.blocks[h] = db.blocks[h]]_vars

\* C25: in every interleaving of MineBlock with AddBlock, the block that
\* MineBlock commits has PrevBlockHash equal to the tip pointer the store
\* holds immediately before that commit.
C25_MinedBlockExtendsStoredTip ==
  [][(run.mining /\ ~run'.mining)
       => DeserializeBlock(db'.blocks[out'.h]).PrevBlockHash = db.l]_vars

\* C26: an iteration started when the tip was T returns exactly T and its
\* ancestors down to genesis, in that order, whatever MineBlock or AddBlock
\* commits between two Next calls: each Next finds its block, the block it
\* returns is the next one of the chain as it was from T at the start, and
\* the loop ends with the last block of that chain.
C26_IterationKeepsItsChain ==
  [][(run.iterating /\ out'.op = "Next")
       => /\ out'.res # "panic"
          /\ Len(run.returned) < Len(run.expected)
          /\ DeserializeBlock(db.blocks[run.currentHash]) = run.expected[Len(run.returned) + 1]
          /\ (out'.res = "done") => Len(run.returned) + 1 = Len(run.expected)]_vars

\* The ledger after the step.
LedgerAfter == [db |-> db', tip |-> tip']

\* C29: GetBestHeight is the number of hashes GetBlockHashes returns (1 on
\* a genesis-only chain), it grows by exactly one on each successful
\* MineBlock, and no MineBlock or AddBlock lowers it.
C29_HeightCountsAndGrows ==
  /\ [](HasHandle => /\ GetBestHeight(Ledger).res = GetBlockHashes(Ledger).res
                     /\ GetBestHeight(Ledger).height = Len(GetBlockHashes(Ledger).blocks)
                     /\ (Cardinality(DOMAIN db.blocks) = 1 /\ Readable)
                           => GetBestHeight(Ledger).height = 1)
  /\ [][(/\ HasHandle
         /\ out'.op \in {"MineBlock", "AddBlock"}
         /\ GetBestHeight(Ledger).res = "ok"
         /\ GetBestHeight(LedgerAfter).res = "ok")
          => /\ GetBestHeight(LedgerAfter).height >= GetBestHeight(Ledger).height
             /\ (out'.res = "mined") =>
                   GetBestHeight(LedgerAfter).height = GetBestHeight(Ledger).height + 1]_vars

\* C30: frame conditions. A step of MineBlock or AddBlock leaves the
\* mempool bucket as it was; a step of AddToMempool or ClearMempool leaves
\* the block bucket, the tip pointer and the handle's tip as they were; a
\* read (the iterator that the chain queries are loops over, one Next at a
\* time) changes neither the store nor the handle's tip.
C30_FrameConditions ==
  [][/\ (out'.op \in {"MineBlock", "AddBlock"})
          => (db'.pool = db.pool /\ db'.hasPool = db.hasPool)
     /\ (out'.op \in {"AddToMempool", "ClearMempool"})
          => /\ db'.blocks = db.blocks
             /\ db'.hasBlocks = db.hasBlocks
             /\ db'.l = db.l
             /\ tip' = tip
     /\ (out'.op \in {"Iterator", "Next"}) => (db' = db /\ tip' = tip)]_vars

\* MineBlock has committed a block and the mempool still holds an entry.
C30_MinedBesidePending ==
  /\ out.op = "MineBlock"
  /\ out.res = "mined"
  /\ db.pool # EmptyDB.pool

\* C22: Run tries the nonces 0, 1, 2, ... in order and returns the
\* smallest one whose digest, read as an unsigned integer, is strictly
\* below the target: the nonce of a sealed block is in the search range, its
\* digest is below the target and is the block's hash, and every smaller
\* nonce gives a digest greater than or equal to the target.
C22_RunReturnsSmallestNonce ==
  Sealed => /\ SealedBlock.Nonce \in 0..(maxNonce - 1)
            /\ HashInt(PowHash(SealedBlock, SealedBlock.Nonce)) < target
            /\ SealedBlock.Hash = PowHash(SealedBlock, SealedBlock.Nonce)
            /\ \A nonce \in 0..(SealedBlock.Nonce - 1) :
                  HashInt(PowHash(SealedBlock, nonce)) >= target

\* The amounts FindSpendableOutputs is asked for in the properties: from
\* the smallest to more than any balance FindUTXO reports in the model.
SpendAmounts == 1..(2 * subsidy + 1)

\* C23: every (transaction id, output index) pair FindSpendableOutputs(f,
\* amount) returns is an output of the chain locked to f that no input of
\* the chain references, no pair is returned twice, and the accumulated
\* value returned is the sum of the values of the returned outputs.
C23_SpendableAreUnspentOnce ==
  Readable =>
    \A f \in Fingerprints, amount \in SpendAmounts :
       LET r == FindSpendableOutputs(Ledger, f, amount)
       IN  /\ \A i \in 1..Len(r.outputs) :
                 /\ r.outputs[i] \in ChainPlaces
                 /\ IsLockedWithKey(r.outputs[i].out, f)
                 /\ ~Referenced(r.outputs[i])
                 /\ \A j \in 1..Len(r.outputs) : r.outputs[j] = r.outputs[i] => j = i
           /\ r.accumulated = SumOut([i \in 1..Len(r.outputs) |-> r.outputs[i].out])

\* C24: FindSpendableOutputs(f, amount) is first-fit in scan order and
\* stops as soon as the accumulated value meets or exceeds amount: what it
\* returns is an initial part of the outputs locked to f that the scan
\* offers, and for amount > 0 either accumulated >= amount and accumulated
\* without the last selected output is < amount, or accumulated < amount
\* and every offered output was selected.
C24_SpendableIsFirstFit ==
  Readable =>
    \A f \in Fingerprints, amount \in SpendAmounts :
       LET offered == FindUTXOPlaces(Ledger, f)
           r == FindSpendableOutputs(Ledger, f, amount)
           n == Len(r.outputs)
       IN  /\ n <= Len(offered)
           /\ r.outputs = SubSeq(offered, 1, n)
           /\ \/ /\ r.accumulated >= amount
                 /\ n > 0
                 /\ r.accumulated - r.outputs[n].out.Value < amount
              \/ /\ r.accumulated < amount
                 /\ n = Len(offered)

\* Some request is met by two outputs while the scan offers more.
C24_StoppedBeforeTheEnd ==
  /\ Readable
  /\ \E f \in Fingerprints, amount \in SpendAmounts :
        LET r == FindSpendableOutputs(Ledger, f, amount)
        IN  /\ Len(r.outputs) = 2
            /\ Len(FindUTXOPlaces(Ledger, f)) > 2
            /\ r.accumulated >= amount

\* The ledger as the command that is about to run opens it.
Opened == [db |-> db, tip |-> db.l]

\* The block a successful command has just stored.
NewBlockAfter == DeserializeBlock(db'.blocks[out'.h])

\* C27: each successful run of the mine command appends exactly one block;
\* its transactions are one coinbase paying the miner, first, followed by
\* exactly the mempool transactions for which VerifyTransaction is true, so
\* that it holds exactly one coinbase transaction; and the mempool is empty
\* afterwards.
C27_MineCommandSealsThePool ==
  [][(out'.op = "mine" /\ out'.res = "mined")
       => /\ out'.h \notin DOMAIN db.blocks
          /\ DOMAIN db'.blocks = DOMAIN db.blocks \cup {out'.h}
          /\ \E a \in Miners : NewBlockAfter.Transactions[1] = NewCoinbaseTX(a, "")
          /\ Tail(NewBlockAfter.Transactions)
               = SelectSeq(GetMempool(Opened),
                           LAMBDA t : VerifyTransaction(Opened, t) = "true")
          /\ Cardinality({i \in 1..Len(NewBlockAfter.Transactions) :
                            IsCoinbase(NewBlockAfter.Transactions[i])}) = 1
          /\ db'.hasPool
          /\ db'.pool = EmptyDB.pool]_vars

\* The outputs of the chain locked to f that no input of the chain references.
UnspentLocked(f) == {p \in ChainPlaces : IsLockedWithKey(p.out, f) /\ ~Referenced(p)}

RECURSIVE SumPlaces(_)
SumPlaces(ps) ==
  IF ps = {} THEN 0
  ELSE LET p == CHOOSE x \in ps : TRUE IN p.out.Value + SumPlaces(ps \ {p})

\* C28: FindUTXO(f) returns each unspent output locked to f exactly once,
\* so the balance summed from what it returns is the sum of the values of
\* the distinct unspent outputs locked to f, also when one transaction
\* carries several outputs locked to f.
C28_FindUTXOOncePerOutput ==
  Readable =>
    \A f \in Fingerprints :
       /\ \A p \in UnspentLocked(f) :
             Cardinality({i \in 1..Len(FindUTXOPlaces(Ledger, f)) :
                            FindUTXOPlaces(Ledger, f)[i] = p}) = 1
       /\ SumOut(FindUTXO(Ledger, f)) = SumPlaces(UnspentLocked(f))

\* C31: after every completed operation on a ledger handle (bootstrap,
\* MineBlock, AddBlock, also an AddBlock that is a no-op and an operation
\* that aborts), the handle's in-memory tip equals the tip pointer
\* persisted in the store.
C31_HandleTipIsStoredTip ==
  (HasHandle /\ run = Idle) => tip = db.l

\* AddBlock has completed with a block the store did not hold.
C31_IngestCompleted ==
  /\ HasHandle
  /\ run = Idle
  /\ out.op = "AddBlock"
  /\ out.res = "added"
  /\ out.h = db.l
  /\ Cardinality(DOMAIN db.blocks) > 1

\* C32: wallet persistence round-trips: a LoadFromFile that follows a
\* SaveToFile yields, for every address of the collection that was saved,
\* the private scalar and the public key bytes that were saved, also when
\* the scalar has fewer bytes than the loader takes for it.
C32_WalletsRoundTrip ==
  [][(out.op = "SaveToFile" /\ out'.op = "LoadFromFile")
       => /\ out'.res = "ok"
          /\ \A a \in DOMAIN run :
                /\ a \in DOMAIN run'
                /\ run'[a].D = run[a].D
                /\ run'[a].PublicKey = run[a].PublicKey]_vars

====
